---- MODULE Spec2Model ----
(***************************************************************************)
(* A model of the zmq binding (src/src/zmq/lib.rs): the Error translation  *)
(* table, the Context and Socket lifecycles, the socket-option plumbing    *)
(* and the Message lifecycle, each against a model of the MQ-lib entry     *)
(* points the binding calls through its extern block.                      *)
(***************************************************************************)
EXTENDS Integers, Sequences, FiniteSets, TLC

VARIABLES
    \* Error translation (Error::to_raw / Error::from_raw)
    errKind, errs, raws,
    \* Context
    ctx, ctxPc, panicking, libCtx, destroyCalls, openAtDestroy,
    \* Sockets
    sockSt, closed, closeCalls, libSock,
    \* the last finished call of the Context/Socket API
    lastOp,
    \* Socket options: the build's size_of::<int>(), the width MQ-lib takes
    \* linger at, MQ-lib's option values and identity of the socket, and the
    \* option calls made so far with their results
    intSize, lingerWidth, optStore, idStore, optLog, idLog,
    \* Messages: per MQ-lib message value the binding has set up, who holds
    \* it, how its initialisation went and how often it was closed; the
    \* number of values set up; the last finished message call
    msgSt, msgInit, msgCloses, msgCount, msgLast

errVars  == <<errKind, errs, raws>>
ctxVars  == <<ctx, ctxPc, panicking, libCtx, destroyCalls, openAtDestroy>>
sockVars == <<sockSt, closed, closeCalls, libSock>>
lifeVars == <<ctxVars, sockVars, lastOp>>
optVars  == <<intSize, lingerWidth, optStore, idStore, optLog, idLog>>
msgVars  == <<msgSt, msgInit, msgCloses, msgCount, msgLast>>
vars     == <<errVars, lifeVars, optVars, msgVars>>
\* what each part of the model leaves alone
notErr   == <<lifeVars, optVars, msgVars>>
notLife  == <<errVars, optVars, msgVars>>
notOpt   == <<errVars, ctxVars, sockVars, lastOp, msgVars>>
notMsg   == <<errVars, ctxVars, sockVars, lastOp, optVars>>

----------------------------------------------------------------------------
(* Bounds *)

\* Error values, and raw codes, one chain of translations goes through
MaxErrSteps == 2
\* Socket values a program creates
MaxSockets == 2
\* zmq_close invocations on one handle
MaxCloseCalls == 2
\* zmq_ctx_destroy invocations on the context
MaxDestroyCalls == 2
\* option calls on the socket
MaxOptCalls == 2
\* the largest option value set
MaxOptValue == 2
\* the longest identity set
MaxIdLen == 3
\* MQ-lib message values the binding sets up
MaxMsgs == 3

----------------------------------------------------------------------------
(* Error model *)

\* libc::consts::os::posix88, the values of the Linux build
posix88 ==
    [ EACCES |-> 13, EADDRINUSE |-> 98, EAGAIN |-> 11, EBUSY |-> 16,
      ECONNREFUSED |-> 111, EFAULT |-> 14, EHOSTUNREACH |-> 113,
      EINPROGRESS |-> 115, EINVAL |-> 22, EMFILE |-> 24, EMSGSIZE |-> 90,
      ENAMETOOLONG |-> 36, ENODEV |-> 19, ENOENT |-> 2, ENOMEM |-> 12,
      ENOTCONN |-> 107, ENOTSOCK |-> 88, EPROTO |-> 71,
      EPROTONOSUPPORT |-> 93, EINTR |-> 4 ]

HAUSNUMERO == 156384712

\* enum Error: each variant with its discriminant, in declaration order
ErrorEnum ==
    << <<"EACCES",          posix88.EACCES>>,
       <<"EADDRINUSE",      posix88.EADDRINUSE>>,
       <<"EAGAIN",          posix88.EAGAIN>>,
       <<"EBUSY",           posix88.EBUSY>>,
       <<"ECONNREFUSED",    posix88.ECONNREFUSED>>,
       <<"EFAULT",          posix88.EFAULT>>,
       <<"EHOSTUNREACH",    posix88.EHOSTUNREACH>>,
       <<"EINPROGRESS",     posix88.EINPROGRESS>>,
       <<"EINVAL",          posix88.EINVAL>>,
       <<"EMFILE",          posix88.EMFILE>>,
       <<"EMSGSIZE",        posix88.EMSGSIZE>>,
       <<"ENAMETOOLONG",    posix88.ENAMETOOLONG>>,
       <<"ENODEV",          posix88.ENODEV>>,
       <<"ENOENT",          posix88.ENOENT>>,
       <<"ENOMEM",          posix88.ENOMEM>>,
       <<"ENOTCONN",        posix88.ENOTCONN>>,
       <<"ENOTSOCK",        posix88.ENOTSOCK>>,
       <<"EPROTO",          posix88.EPROTO>>,
       <<"EPROTONOSUPPORT", posix88.EPROTONOSUPPORT>>,
       <<"ENOTSUP",         156384713>>,
       <<"ENOBUFS",         156384715>>,
       <<"ENETDOWN",        156384716>>,
       <<"EADDRNOTAVAIL",   156384718>>,
       <<"EFSM",            156384763>>,
       <<"ENOCOMPATPROTO",  156384764>>,
       <<"ETERM",           156384765>>,
       <<"EMTHREAD",        156384766>> >>

Error == { ErrorEnum[i][1] : i \in DOMAIN ErrorEnum }

\* the outcome of fail!(..): the task fails, no value is produced
Fail == "fail!"

\* a plausible slip in the enum: ENOTSUP given the base itself
ErrorEnumOffByOne ==
    [ i \in DOMAIN ErrorEnum |->
        IF ErrorEnum[i][1] = "ENOTSUP" THEN <<"ENOTSUP", HAUSNUMERO>>
        ELSE ErrorEnum[i] ]

to_raw_off_by_one(e) ==
    LET i == CHOOSE j \in DOMAIN ErrorEnumOffByOne : ErrorEnumOffByOne[j][1] = e
    IN  ErrorEnumOffByOne[i][2]

\* Error::to_raw: *self as i32
to_raw(e) ==
    LET i == CHOOSE j \in DOMAIN ErrorEnum : ErrorEnum[j][1] = e
    IN  ErrorEnum[i][2]

\* the arms of the match in Error::from_raw, in source order
FromRawArms ==
    << <<posix88.EACCES,          "EACCES">>,
       <<posix88.EADDRINUSE,      "EADDRINUSE">>,
       <<posix88.EAGAIN,          "EAGAIN">>,
       <<posix88.EBUSY,           "EBUSY">>,
       <<posix88.ECONNREFUSED,    "ECONNREFUSED">>,
       <<posix88.EFAULT,          "EFAULT">>,
       <<posix88.EHOSTUNREACH,    "EHOSTUNREACH">>,
       <<posix88.EINPROGRESS,     "EINPROGRESS">>,
       <<posix88.EINVAL,          "EINVAL">>,
       <<posix88.EMFILE,          "EMFILE">>,
       <<posix88.EMSGSIZE,        "EMSGSIZE">>,
       <<posix88.ENAMETOOLONG,    "ENAMETOOLONG">>,
       <<posix88.ENODEV,          "ENODEV">>,
       <<posix88.ENOENT,          "ENOENT">>,
       <<posix88.ENOMEM,          "ENOMEM">>,
       <<posix88.ENOTCONN,        "ENOTCONN">>,
       <<posix88.ENOTSOCK,        "ENOTSOCK">>,
       <<posix88.EPROTO,          "EPROTO">>,
       <<posix88.EPROTONOSUPPORT, "EPROTONOSUPPORT">>,
       <<156384713,               "ENOTSUP">>,
       <<156384714,               "EPROTONOSUPPORT">>,
       <<156384715,               "ENOBUFS">>,
       <<156384716,               "ENETDOWN">>,
       <<156384717,               "EADDRINUSE">>,
       <<156384718,               "EADDRNOTAVAIL">>,
       <<156384719,               "ECONNREFUSED">>,
       <<156384720,               "EINPROGRESS">>,
       <<156384721,               "ENOTSOCK">>,
       <<156384763,               "EFSM">>,
       <<156384764,               "ENOCOMPATPROTO">>,
       <<156384765,               "ETERM">>,
       <<156384766,               "EMTHREAD">> >>

\* the first arm whose pattern is raw, else the catch-all arm
MatchArms(arms, raw) ==
    LET hits == { i \in DOMAIN arms : arms[i][1] = raw }
    IN  IF hits = {} THEN Fail
        ELSE arms[CHOOSE i \in hits : \A j \in hits : i <= j][2]

\* a plausible slip in the table: the ENOBUFS arm yields its neighbour
FromRawArmsSlip ==
    [ i \in DOMAIN FromRawArms |->
        IF FromRawArms[i][1] = 156384715 THEN <<156384715, "ENETDOWN">>
        ELSE FromRawArms[i] ]

from_raw_slip(raw) == MatchArms(FromRawArmsSlip, raw)

\* Error::from_raw
from_raw(raw) == MatchArms(FromRawArms, raw)

\* the codes handed to from_raw: the POSIX codes of the table, EINTR, zero,
\* and the MQ-lib band from the base to base+55
RawCodes ==
    { posix88.EACCES, posix88.EADDRINUSE, posix88.EAGAIN, posix88.EBUSY,
      posix88.ECONNREFUSED, posix88.EFAULT, posix88.EHOSTUNREACH,
      posix88.EINPROGRESS, posix88.EINVAL, posix88.EMFILE, posix88.EMSGSIZE,
      posix88.ENAMETOOLONG, posix88.ENODEV, posix88.ENOENT, posix88.ENOMEM,
      posix88.ENOTCONN, posix88.ENOTSOCK, posix88.EPROTO,
      posix88.EPROTONOSUPPORT, posix88.EINTR, 0 }
    \cup (HAUSNUMERO .. HAUSNUMERO + 55)

----------------------------------------------------------------------------
(* MQ-lib: contexts and sockets *)

NULL == "NULL"

Socks == 1..MaxSockets

OpenInLib == { s \in Socks : libSock[s] = "open" }

\* zmq_ctx_new: a handle, or null
zmq_ctx_new == { "CTX", NULL }

\* zmq_socket(ctx, typ): the handle of a socket MQ-lib does not hold yet,
\* or null with errno set
zmq_socket(h) ==
    IF h = NULL \/ libCtx = "destroyed"
    THEN { [sock |-> 0, errno |-> posix88.EFAULT] }
    ELSE IF libCtx = "terminating"
    THEN { [sock |-> 0, errno |-> 156384765] }
    ELSE { [sock |-> s, errno |-> 0] :
             s \in { x \in Socks : libSock[x] = "none"
                                  /\ \A y \in 1..(x - 1) : libSock[y] # "none" } }
         \cup { [sock |-> 0, errno |-> posix88.EMFILE] }

\* zmq_ctx_destroy(ctx), the answers it can give now: bad address for a
\* handle that is no live context; else success once no socket is open (it
\* blocks while one is), or interrupted
zmq_ctx_destroy(h) ==
    IF h = NULL \/ libCtx \notin {"live", "terminating"}
    THEN { [rc |-> -1, errno |-> posix88.EFAULT] }
    ELSE (IF OpenInLib = {} THEN { [rc |-> 0, errno |-> 0] } ELSE {})
         \cup { [rc |-> -1, errno |-> posix88.EINTR] }

\* zmq_close(socket): success on an open socket; on a handle already closed
\* the socket is gone, and the call answers ENOTSOCK or does not notice
zmq_close(s) ==
    IF libSock[s] = "open"
    THEN { [rc |-> 0, errno |-> 0] }
    ELSE { [rc |-> -1, errno |-> posix88.ENOTSOCK], [rc |-> 0, errno |-> 0] }

\* fn errno_to_error, on the errno zmq_errno() gives after the failed call
errno_to_error(errno) == from_raw(errno)

\* the record of a finished call: the operation, its Socket (0: none), its
\* result (Ok, an Error, or the task's failure), the errno it read, and how
\* many times it entered MQ-lib with its handle
Op(op, s, res, errno, calls) ==
    [op |-> op, sock |-> s, res |-> res, errno |-> errno, calls |-> calls]

\* Result of a call of MQ-lib that answers -1 on failure
ResultOf(r) == IF r.rc = -1 THEN errno_to_error(r.errno) ELSE "Ok"

----------------------------------------------------------------------------
(* Context *)

\* Context::new
CtxNew ==
    /\ ctxPc = "none"
    /\ \E h \in zmq_ctx_new :
        /\ ctx' = [ctx |-> h]
        /\ libCtx' = (IF h = NULL THEN "none" ELSE "live")
    /\ ctxPc' = "alive"
    /\ lastOp' = Op("new", 0, "Ok", 0, 1)
    /\ UNCHANGED <<panicking, destroyCalls, openAtDestroy, sockVars, notLife>>

\* Context::socket
CtxSocket ==
    /\ ctxPc = "alive"
    /\ ~panicking
    /\ \E r \in zmq_socket(ctx.ctx) :
        IF r.sock = 0
        THEN /\ lastOp' = Op("socket", 0, errno_to_error(r.errno), r.errno, 1)
             /\ UNCHANGED sockVars
        ELSE /\ sockSt' = [sockSt EXCEPT ![r.sock] = "alive"]
             /\ closed' = [closed EXCEPT ![r.sock] = FALSE]
             /\ libSock' = [libSock EXCEPT ![r.sock] = "open"]
             /\ lastOp' = Op("socket", r.sock, "Ok", 0, 1)
             /\ UNCHANGED closeCalls
    /\ UNCHANGED <<ctxVars, notLife>>

\* the binding enters zmq_ctx_destroy(self.ctx)
EnterDestroy ==
    /\ destroyCalls' = destroyCalls + 1
    /\ openAtDestroy' = Cardinality(OpenInLib)
    /\ libCtx' = (IF ctx.ctx # NULL /\ libCtx = "live" THEN "terminating" ELSE libCtx)

\* Context::destroy, up to its call of zmq_ctx_destroy
CtxDestroyCall ==
    /\ ctxPc = "alive"
    /\ ~panicking
    /\ destroyCalls < MaxDestroyCalls
    /\ EnterDestroy
    /\ ctxPc' = "in_destroy"
    /\ UNCHANGED <<ctx, panicking, lastOp, sockVars, notLife>>

\* Context::destroy, from the return of zmq_ctx_destroy
CtxDestroyReturn ==
    /\ ctxPc = "in_destroy"
    /\ \E r \in zmq_ctx_destroy(ctx.ctx) :
        /\ lastOp' = Op("destroy", 0, ResultOf(r), r.errno, 1)
        /\ panicking' = (ResultOf(r) = Fail)
        /\ libCtx' = (IF r.rc = -1 THEN libCtx ELSE "destroyed")
    /\ ctxPc' = "alive"
    /\ UNCHANGED <<ctx, destroyCalls, openAtDestroy, sockVars, notLife>>

\* Drop for Context, up to the first call of zmq_ctx_destroy; the Context is
\* dropped by its owner, or by the unwinding of a failed task
CtxDropCall ==
    /\ ctxPc = "alive"
    /\ destroyCalls < MaxDestroyCalls
    /\ EnterDestroy
    /\ ctxPc' = "in_drop"
    /\ UNCHANGED <<ctx, panicking, lastOp, sockVars, notLife>>

\* Drop for Context, from a return of zmq_ctx_destroy: the loop test and, when
\* it passes, the next call
CtxDropReturn ==
    /\ ctxPc = "in_drop"
    /\ \E r \in zmq_ctx_destroy(ctx.ctx) :
        LET e == ResultOf(r) IN
        /\ IF e = Fail
           THEN /\ ctxPc' = (IF panicking THEN "aborted" ELSE "failed")
                /\ lastOp' = Op("ctx_drop", 0, Fail, r.errno, 1)
                /\ UNCHANGED <<libCtx, destroyCalls, openAtDestroy>>
           ELSE IF e # "Ok" /\ e # "EFAULT"
           THEN /\ destroyCalls < MaxDestroyCalls
                /\ EnterDestroy
                /\ ctxPc' = "in_drop"
                /\ lastOp' = Op("ctx_drop", 0, "retry", r.errno, 1)
           ELSE /\ ctxPc' = "dropped"
                /\ libCtx' = (IF e = "Ok" THEN "destroyed" ELSE libCtx)
                /\ lastOp' = Op("ctx_drop", 0, e, r.errno, 1)
                /\ UNCHANGED <<destroyCalls, openAtDestroy>>
    /\ UNCHANGED <<ctx, panicking, sockVars, notLife>>

----------------------------------------------------------------------------
(* Socket *)

\* the binding calls zmq_close(self.sock) and MQ-lib answers r
InvokeClose(s, r) ==
    /\ closeCalls' = [closeCalls EXCEPT ![s] = @ + 1]
    /\ libSock' = [libSock EXCEPT ![s] = "closed"]

\* a plausible slip: close without the test of the flag
SockCloseUnguarded(s) ==
    /\ sockSt[s] = "alive"
    /\ closeCalls[s] < MaxCloseCalls
    /\ closed' = [closed EXCEPT ![s] = TRUE]
    /\ \E r \in zmq_close(s) :
        /\ InvokeClose(s, r)
        /\ lastOp' = Op("close", s, ResultOf(r), r.errno, 1)
    /\ UNCHANGED <<sockSt, ctxVars, notLife>>

\* Socket::close
SockClose(s) ==
    /\ sockSt[s] = "alive"
    /\ IF ~closed[s]
       THEN /\ closeCalls[s] < MaxCloseCalls
            /\ closed' = [closed EXCEPT ![s] = TRUE]
            /\ \E r \in zmq_close(s) :
                /\ InvokeClose(s, r)
                /\ lastOp' = Op("close", s, ResultOf(r), r.errno, 1)
       ELSE /\ lastOp' = Op("close", s, "Ok", 0, 0)
            /\ UNCHANGED <<closed, closeCalls, libSock>>
    /\ UNCHANGED <<sockSt, ctxVars, notLife>>

\* Socket::close_final
SockCloseFinal(s) ==
    /\ sockSt[s] = "alive"
    /\ IF ~closed[s]
       THEN /\ closeCalls[s] < MaxCloseCalls
            /\ \E r \in zmq_close(s) :
                /\ InvokeClose(s, r)
                /\ lastOp' = Op("close_final", s, ResultOf(r), r.errno, 1)
       ELSE /\ lastOp' = Op("close_final", s, "Ok", 0, 0)
            /\ UNCHANGED <<closeCalls, libSock>>
    /\ UNCHANGED <<sockSt, closed, ctxVars, notLife>>

\* Drop for Socket: close_final, and the task fails on its error
SockDrop(s) ==
    /\ sockSt[s] = "alive"
    /\ IF ~closed[s]
       THEN /\ closeCalls[s] < MaxCloseCalls
            /\ \E r \in zmq_close(s) :
                /\ InvokeClose(s, r)
                /\ lastOp' = Op("drop", s,
                                IF ResultOf(r) = "Ok" THEN "Ok" ELSE Fail, r.errno, 1)
       ELSE /\ lastOp' = Op("drop", s, "Ok", 0, 0)
            /\ UNCHANGED <<closeCalls, libSock>>
    /\ sockSt' = [sockSt EXCEPT ![s] = "dropped"]
    /\ UNCHANGED <<closed, ctxVars, notLife>>

\* the methods of Socket that hand self.sock to MQ-lib besides the closing
\* ones: bind, connect, send, recv, and the option getters and setters
SockCalls == { "bind", "connect", "send", "recv", "getsockopt", "setsockopt" }

\* the errno MQ-lib gives when the call of op fails on an open socket
CallErrno(op) ==
    CASE op = "bind"               -> posix88.EADDRINUSE
      [] op \in {"send", "recv"}   -> posix88.EAGAIN
      [] OTHER                     -> posix88.EINVAL

\* zmq_bind, zmq_connect, zmq_msg_send, zmq_msg_recv, zmq_getsockopt and
\* zmq_setsockopt on handle s: done or failed on an open socket; on a handle
\* already closed the socket is gone, and the call answers ENOTSOCK or does
\* not notice
zmq_call(s, op) ==
    IF libSock[s] = "open"
    THEN { [rc |-> 0, errno |-> 0], [rc |-> -1, errno |-> CallErrno(op)] }
    ELSE { [rc |-> -1, errno |-> posix88.ENOTSOCK], [rc |-> 0, errno |-> 0] }

\* Socket::bind, connect, send, recv, get_* and set_*, as far as the handle
\* goes: none of them reads self.closed before it calls MQ-lib
SockCall(s, op) ==
    /\ sockSt[s] = "alive"
    /\ \E r \in zmq_call(s, op) :
        lastOp' = Op(op, s, ResultOf(r), r.errno, 1)
    /\ UNCHANGED <<sockVars, ctxVars, notLife>>

----------------------------------------------------------------------------
(* Socket options *)

\* the set_* methods of Socket that have a get_*: the setsockopt_* each calls
Setter ==
    [ maxmsgsize |-> "i64", sndhwm |-> "int", rcvhwm |-> "int",
      affinity |-> "u64", rate |-> "i64", recovery_ivl |-> "i64",
      recovery_ivl_msec |-> "i64", mcast_loop |-> "i64", sndbuf |-> "u64",
      rcvbuf |-> "u64", linger |-> "int", reconnect_ivl |-> "int",
      reconnect_ivl_max |-> "int", backlog |-> "int" ]

\* the get_* methods of the same options: the C type of the getsockopt_* each
\* calls (getsockopt_int reads a c_int)
Getter ==
    [ maxmsgsize |-> "int64_t", sndhwm |-> "c_int", rcvhwm |-> "c_int",
      affinity |-> "uint64_t", rate |-> "int64_t", recovery_ivl |-> "int64_t",
      recovery_ivl_msec |-> "int64_t", mcast_loop |-> "int64_t",
      sndbuf |-> "uint64_t", rcvbuf |-> "uint64_t", linger |-> "int64_t",
      reconnect_ivl |-> "c_int", reconnect_ivl_max |-> "c_int",
      backlog |-> "c_int" ]

Options == DOMAIN Setter

\* mem::size_of::<T>(): int is the pointer-sized integer of the build
size_of(ty) ==
    CASE ty = "int"   -> intSize
      [] ty = "c_int" -> 4
      [] OTHER        -> 8

\* the values a caller sets: a bool for mcast_loop (1: true, 0: false)
OptValues(o) == IF o = "mcast_loop" THEN {0, 1} ELSE 0..MaxOptValue

\* the byte width MQ-lib takes and gives option o at: that of the C type the
\* getter names; for linger, where setter (int) and getter (int64_t) differ,
\* the one or the other
OptWidth(o) == IF o = "linger" THEN lingerWidth ELSE size_of(Getter[o])

\* zmq_setsockopt(socket, opt, optval, size) for a numeric option
zmq_setsockopt(o, v, size) ==
    IF size # OptWidth(o)
    THEN [rc |-> -1, errno |-> posix88.EINVAL, store |-> optStore]
    ELSE [rc |-> 0, errno |-> 0, store |-> [optStore EXCEPT ![o] = v]]

\* zmq_getsockopt(socket, opt, optval, size) for a numeric option; value is
\* what *optval holds afterwards, having held 0
zmq_getsockopt(o, size) ==
    IF size # OptWidth(o)
    THEN [rc |-> -1, errno |-> posix88.EINVAL, value |-> 0]
    ELSE [rc |-> 0, errno |-> 0, value |-> optStore[o]]

IdentityMax == 255

Bytes == {65, 66}

ByteStrings == UNION { [1..n -> Bytes] : n \in 0..MaxIdLen }

\* zmq_setsockopt(socket, ZMQ_IDENTITY, optval, size)
zmq_setsockopt_identity(b) ==
    IF Len(b) \notin 1..IdentityMax
    THEN [rc |-> -1, errno |-> posix88.EINVAL, id |-> idStore]
    ELSE [rc |-> 0, errno |-> 0, id |-> b]

\* zmq_getsockopt(socket, ZMQ_IDENTITY, optval, size): mem is what the
\* buffer at optval holds afterwards, size what *size holds
zmq_getsockopt_identity(size) ==
    IF size < Len(idStore)
    THEN [rc |-> -1, errno |-> posix88.EINVAL, mem |-> <<>>, size |-> size]
    ELSE [rc |-> 0, errno |-> 0, mem |-> idStore, size |-> Len(idStore)]

\* Vec::with_capacity: room for n elements, none of them in the vector yet
Vec_with_capacity(n) == [cap |-> n, len |-> 0, mem |-> <<>>]

\* Vec::truncate: shortens the vector to n elements, and does nothing to a
\* vector that has no more than n
truncate(v, n) == IF n < v.len THEN [v EXCEPT !.len = n] ELSE v

\* the elements of a vector
Elements(v) == SubSeq(v.mem, 1, v.len)

OptCallsLeft == Len(optLog) + Len(idLog) < MaxOptCalls

SocketOpen(s) == sockSt[s] = "alive" /\ ~closed[s] /\ libSock[s] = "open"

\* Socket::set_<o>(value) through setsockopt_int / _i64 / _u64
SetOption(o, v) ==
    /\ OptCallsLeft
    /\ SocketOpen(1)
    /\ LET value == IF o = "mcast_loop" THEN (IF v = 1 THEN 1 ELSE 0) ELSE v
           r == zmq_setsockopt(o, value, size_of(Setter[o]))
       IN  /\ optStore' = r.store
           /\ optLog' = Append(optLog,
                  [op |-> "set", opt |-> o, val |-> v, res |-> ResultOf(r)])
    /\ UNCHANGED <<intSize, lingerWidth, idStore, idLog, notOpt>>

\* Socket::get_<o>() through getsockopt_int / _i64 / _u64
GetOption(o) ==
    /\ OptCallsLeft
    /\ SocketOpen(1)
    /\ LET r == zmq_getsockopt(o, size_of(Getter[o]))
           value == IF o = "mcast_loop" THEN (IF r.value = 1 THEN 1 ELSE 0)
                    ELSE r.value
       IN  optLog' = Append(optLog,
                  [op |-> "get", opt |-> o,
                   val |-> IF r.rc = -1 THEN 0 ELSE value, res |-> ResultOf(r)])
    /\ UNCHANGED <<intSize, lingerWidth, optStore, idStore, idLog, notOpt>>

\* Socket::set_identity through setsockopt_bytes
SetIdentity(b) ==
    /\ OptCallsLeft
    /\ SocketOpen(1)
    /\ LET r == zmq_setsockopt_identity(b)
       IN  /\ idStore' = r.id
           /\ idLog' = Append(idLog,
                  [op |-> "set_identity", val |-> b, res |-> ResultOf(r)])
    /\ UNCHANGED <<intSize, lingerWidth, optStore, optLog, notOpt>>

\* Socket::get_identity through getsockopt_bytes
GetIdentity ==
    /\ OptCallsLeft
    /\ SocketOpen(1)
    /\ LET size  == IdentityMax
           value == Vec_with_capacity(size)
           r     == zmq_getsockopt_identity(size)
           got   == truncate([value EXCEPT !.mem = r.mem], r.size)
       IN  idLog' = Append(idLog,
                  [op |-> "get_identity",
                   val |-> IF r.rc = -1 THEN <<>> ELSE Elements(got),
                   res |-> ResultOf(r)])
    /\ UNCHANGED <<intSize, lingerWidth, optStore, idStore, optLog, notOpt>>

----------------------------------------------------------------------------
(* Messages *)

Msgs == 1..MaxMsgs

\* zmq_msg_init: always 0 (MQ-lib defines no error for it)
zmq_msg_init == { [rc |-> 0, errno |-> 0] }

\* zmq_msg_init_size: 0, or -1 for want of memory
zmq_msg_init_size == { [rc |-> 0, errno |-> 0], [rc |-> -1, errno |-> posix88.ENOMEM] }

\* zmq_msg_send and zmq_msg_recv: done, or -1 because the call would block,
\* the context was terminated, or a signal interrupted it
zmq_msg_send ==
    { [rc |-> 0, errno |-> 0], [rc |-> -1, errno |-> posix88.EAGAIN],
      [rc |-> -1, errno |-> 156384765], [rc |-> -1, errno |-> posix88.EINTR] }

zmq_msg_recv == zmq_msg_send

\* the binding calls zmq_msg_close on message value m
MsgClose(m) == msgCloses' = [msgCloses EXCEPT ![m] = @ + 1]

MsgOp(op, m, res) == [op |-> op, msg |-> m, res |-> res]

\* the message value a call sets up next
NewMsg == msgCount + 1

\* Message::new by the program, which keeps the Message
MessageNew ==
    /\ msgCount < MaxMsgs
    /\ \E i \in zmq_msg_init :
        msgInit' = [msgInit EXCEPT ![NewMsg] = IF i.rc = -1 THEN "failed" ELSE "ok"]
    /\ msgSt' = [msgSt EXCEPT ![NewMsg] = "held"]
    /\ msgCount' = NewMsg
    /\ msgLast' = MsgOp("new", NewMsg, "Ok")
    /\ UNCHANGED <<msgCloses, notMsg>>

\* Drop for Message
MessageDrop(m) ==
    /\ msgSt[m] = "held"
    /\ MsgClose(m)
    /\ msgSt' = [msgSt EXCEPT ![m] = "dropped"]
    /\ msgLast' = MsgOp("drop", m, "Ok")
    /\ UNCHANGED <<msgInit, msgCount, notMsg>>

\* Socket::recv into a Message of the caller
SockRecv(m) ==
    /\ sockSt[1] = "alive"
    /\ msgSt[m] = "held"
    /\ \E r \in zmq_msg_recv :
        /\ msgLast' = MsgOp("recv", m, ResultOf(r))
    /\ UNCHANGED <<msgSt, msgInit, msgCloses, msgCount, notMsg>>

\* Socket::recv_msg (keep), and Socket::recv_bytes and Socket::recv_str
\* (~keep), which copy the payload out and drop the Message: the Message
\* is handed on with Ok and dropped on every other path, the unwinding of a
\* failed task among them
SockRecvMsg(op, keep) ==
    /\ sockSt[1] = "alive"
    /\ msgCount < MaxMsgs
    /\ msgCount' = NewMsg
    /\ \E i \in zmq_msg_init, r \in zmq_msg_recv :
        /\ msgInit' = [msgInit EXCEPT ![NewMsg] = IF i.rc = -1 THEN "failed" ELSE "ok"]
        /\ msgLast' = MsgOp(op, NewMsg, ResultOf(r))
        /\ IF ResultOf(r) = "Ok" /\ keep
           THEN /\ msgSt' = [msgSt EXCEPT ![NewMsg] = "held"]
                /\ UNCHANGED msgCloses
           ELSE /\ msgSt' = [msgSt EXCEPT ![NewMsg] = "dropped"]
                /\ MsgClose(NewMsg)
    /\ UNCHANGED notMsg

\* a plausible slip: send returns on the failure of zmq_msg_send before it
\* closes the message
SockSendEarlyReturn ==
    /\ sockSt[1] = "alive"
    /\ msgCount < MaxMsgs
    /\ msgCount' = NewMsg
    /\ msgSt' = [msgSt EXCEPT ![NewMsg] = "stack_gone"]
    /\ \E i \in zmq_msg_init_size :
        IF i.rc = -1
        THEN /\ msgInit' = [msgInit EXCEPT ![NewMsg] = "failed"]
             /\ msgLast' = MsgOp("send", NewMsg, ResultOf(i))
             /\ UNCHANGED msgCloses
        ELSE \E r \in zmq_msg_send :
             /\ msgInit' = [msgInit EXCEPT ![NewMsg] = "ok"]
             /\ IF r.rc = -1 THEN UNCHANGED msgCloses ELSE MsgClose(NewMsg)
             /\ msgLast' = MsgOp("send", NewMsg, ResultOf(r))
    /\ UNCHANGED notMsg

\* Socket::send (and send_str, which calls it): the message value lives on
\* the stack of the call
SockSend ==
    /\ sockSt[1] = "alive"
    /\ msgCount < MaxMsgs
    /\ msgCount' = NewMsg
    /\ msgSt' = [msgSt EXCEPT ![NewMsg] = "stack_gone"]
    /\ \E i \in zmq_msg_init_size :
        IF i.rc = -1
        THEN /\ msgInit' = [msgInit EXCEPT ![NewMsg] = "failed"]
             /\ msgLast' = MsgOp("send", NewMsg, ResultOf(i))
             /\ UNCHANGED msgCloses
        ELSE \E r \in zmq_msg_send :
             /\ msgInit' = [msgInit EXCEPT ![NewMsg] = "ok"]
             /\ MsgClose(NewMsg)
             /\ msgLast' = MsgOp("send", NewMsg, ResultOf(r))
    /\ UNCHANGED notMsg

----------------------------------------------------------------------------
(* Initial states and specifications *)

\* the state of the Context and Socket part before any call
LifeIdle ==
    /\ ctx = [ctx |-> "unset"]
    /\ ctxPc = "none"
    /\ panicking = FALSE
    /\ libCtx = "none"
    /\ destroyCalls = 0
    /\ openAtDestroy = 0
    /\ sockSt = [s \in 1..MaxSockets |-> "none"]
    /\ closed = [s \in 1..MaxSockets |-> FALSE]
    /\ closeCalls = [s \in 1..MaxSockets |-> 0]
    /\ libSock = [s \in 1..MaxSockets |-> "none"]
    /\ lastOp = [op |-> "none", sock |-> 0, res |-> "none", errno |-> 0, calls |-> 0]

ErrIdle ==
    /\ errKind = "none"
    /\ errs = <<>>
    /\ raws = <<>>

\* no option call made: the build and MQ-lib's width of linger are any of
\* those there are, and MQ-lib holds the socket's option values (0 stands for
\* each option's default) and its identity, empty until one is set
OptIdle ==
    /\ intSize \in {4, 8}
    /\ lingerWidth \in {4, 8}
    /\ optStore = [o \in Options |-> 0]
    /\ idStore = <<>>
    /\ optLog = <<>>
    /\ idLog = <<>>

\* the state of the Context and Socket part once Context::new and
\* Context::socket have each succeeded
LifeOneSocket ==
    /\ ctx = [ctx |-> "CTX"]
    /\ ctxPc = "alive"
    /\ panicking = FALSE
    /\ libCtx = "live"
    /\ destroyCalls = 0
    /\ openAtDestroy = 0
    /\ sockSt = [s \in 1..MaxSockets |-> IF s = 1 THEN "alive" ELSE "none"]
    /\ closed = [s \in 1..MaxSockets |-> FALSE]
    /\ closeCalls = [s \in 1..MaxSockets |-> 0]
    /\ libSock = [s \in 1..MaxSockets |-> IF s = 1 THEN "open" ELSE "none"]
    /\ lastOp = Op("socket", 1, "Ok", 0, 1)

\* the option part where no option call is looked at: one build
OptFixed ==
    /\ intSize = 8
    /\ lingerWidth = 4
    /\ optStore = [o \in Options |-> 0]
    /\ idStore = <<>>
    /\ optLog = <<>>
    /\ idLog = <<>>

\* no message value set up
MsgIdle ==
    /\ msgSt = [m \in Msgs |-> "unused"]
    /\ msgInit = [m \in Msgs |-> "none"]
    /\ msgCloses = [m \in Msgs |-> 0]
    /\ msgCount = 0
    /\ msgLast = MsgOp("none", 0, "none")

\* the input is an Error variant (to_raw is applied first) or an i32 code
\* (from_raw is applied first)
InitErr ==
    /\ \/ /\ errKind = "variant"
          /\ \E e \in Error : errs = <<e>>
          /\ raws = <<>>
       \/ /\ errKind = "code"
          /\ \E c \in RawCodes : raws = <<c>>
          /\ errs = <<>>
    /\ LifeIdle
    /\ OptFixed
    /\ MsgIdle

\* e.to_raw() on the Error last obtained
ErrToRaw ==
    /\ Len(raws) < MaxErrSteps
    /\ errs # <<>>
    /\ errs[Len(errs)] # Fail
    /\ Len(raws) = (IF errKind = "variant" THEN Len(errs) - 1 ELSE Len(errs))
    /\ raws' = Append(raws, to_raw(errs[Len(errs)]))
    /\ UNCHANGED <<errKind, errs, notErr>>

\* Error::from_raw(raw) on the code last obtained
ErrFromRaw ==
    /\ Len(errs) < MaxErrSteps
    /\ raws # <<>>
    /\ Len(errs) = (IF errKind = "variant" THEN Len(raws) ELSE Len(raws) - 1)
    /\ errs' = Append(errs, from_raw(raws[Len(raws)]))
    /\ UNCHANGED <<errKind, raws, notErr>>

NextErr == ErrToRaw \/ ErrFromRaw

SpecErr == InitErr /\ [][NextErr]_vars

Init == ErrIdle /\ LifeIdle /\ OptFixed /\ MsgIdle

Next ==
    \/ CtxNew
    \/ CtxSocket
    \/ CtxDestroyCall
    \/ CtxDestroyReturn
    \/ CtxDropCall
    \/ CtxDropReturn
    \/ \E s \in Socks : SockClose(s)
    \/ \E s \in Socks : SockCloseFinal(s)
    \/ \E s \in Socks : SockDrop(s)

Spec == Init /\ [][Next]_vars

\* the Sockets of a Context in use: created, called, closed and dropped while
\* the Context lives
NextCall ==
    \/ CtxNew
    \/ CtxSocket
    \/ \E s \in Socks : \E op \in SockCalls : SockCall(s, op)
    \/ \E s \in Socks : SockClose(s)
    \/ \E s \in Socks : SockCloseFinal(s)
    \/ \E s \in Socks : SockDrop(s)

SpecCall == Init /\ [][NextCall]_vars


InitOpt == ErrIdle /\ LifeOneSocket /\ OptIdle /\ MsgIdle

NextOpt ==
    \/ \E o \in Options : \E v \in OptValues(o) : SetOption(o, v)
    \/ \E o \in Options : GetOption(o)
    \/ \E b \in ByteStrings : SetIdentity(b)
    \/ GetIdentity

SpecOpt == InitOpt /\ [][NextOpt]_vars

InitMsg == ErrIdle /\ LifeOneSocket /\ OptFixed /\ MsgIdle

NextMsg ==
    \/ MessageNew
    \/ \E m \in Msgs : MessageDrop(m)
    \/ \E m \in Msgs : SockRecv(m)
    \/ SockRecvMsg("recv_msg", TRUE)
    \/ SockRecvMsg("recv_bytes", FALSE)
    \/ SockRecvMsg("recv_str", FALSE)
    \/ SockSend

SpecMsg == InitMsg /\ [][NextMsg]_vars

----------------------------------------------------------------------------
(* Claims about the Error translation *)

\* C1: for every Error variant e, Error::from_raw(e.to_raw()) is e again
\* (and so never the failure of the catch-all arm).
C1_FromRawOfToRaw ==
    errKind = "variant" =>
        \A i \in 1..(Len(errs) - 1) : errs[i + 1] = errs[i]

\* a variant that two arms of from_raw yield has gone through to_raw and back
C1_Witness ==
    /\ errKind = "variant"
    /\ Len(errs) >= 2
    /\ errs[1] = "EPROTONOSUPPORT"
    /\ raws[1] = posix88.EPROTONOSUPPORT
    /\ errs[2] = "EPROTONOSUPPORT"

\* C10 as stated: for every code c that from_raw accepts,
\* Error::from_raw(c).to_raw() is c again.
C10_Lossless ==
    errKind = "code" =>
        \A i \in 1..(Len(raws) - 1) : raws[i + 1] = raws[i]

\* the codes of the MQ-lib band that stand for an error POSIX also names
C10_AliasCodes == { 156384714, 156384717, 156384719, 156384720, 156384721 }

C10_AliasTarget(c) ==
    CASE c = 156384714 -> posix88.EPROTONOSUPPORT
      [] c = 156384717 -> posix88.EADDRINUSE
      [] c = 156384719 -> posix88.ECONNREFUSED
      [] c = 156384720 -> posix88.EINPROGRESS
      [] c = 156384721 -> posix88.ENOTSOCK

\* C10 as amended: for every accepted code c other than the five alias codes
\* base+2, base+5, base+7, base+8 and base+9, Error::from_raw(c).to_raw() is
\* c; an alias code comes back as the POSIX code of the same error.
C10_LosslessButAliases ==
    errKind = "code" =>
        \A i \in 1..(Len(raws) - 1) :
            raws[i + 1] = (IF raws[i] \in C10_AliasCodes
                           THEN C10_AliasTarget(raws[i]) ELSE raws[i])

\* a code of the MQ-lib band that is no alias has been translated and back
C10_Witness ==
    /\ errKind = "code"
    /\ Len(raws) >= 2
    /\ raws[1] = 156384713
    /\ errs[1] = "ENOTSUP"
    /\ raws[2] = 156384713

----------------------------------------------------------------------------
(* Claims about the Context and its Sockets *)

\* C2: zmq_close is invoked on a Socket's handle exactly once over close(),
\* close_final() and the drop: never twice, and once by the time the Socket
\* has been dropped.
C2_ClosedExactlyOnce ==
    \A s \in Socks :
        /\ closeCalls[s] <= 1
        /\ sockSt[s] = "dropped" => closeCalls[s] = 1

\* C3: close() on a Socket whose closed flag is set returns success, does not
\* enter MQ-lib and changes nothing of the Socket.
C3_CloseIdempotent ==
    [][\A s \in Socks :
          (closed[s] /\ SockClose(s)) =>
              /\ lastOp'.res = "Ok"
              /\ lastOp'.calls = 0
              /\ UNCHANGED <<sockVars, ctxVars>>]_vars

\* a close() that found the flag set, on a Socket whose first close() entered
\* MQ-lib with a handle close_final() had closed already
C3_Witness ==
    /\ lastOp = Op("close", 1, "Ok", 0, 0)
    /\ closed[1]
    /\ sockSt[2] = "none"
    /\ closeCalls[1] = 2

\* C4: when zmq_ctx_destroy answers -1 with EINTR in the drop of the Context,
\* the drop does not fail: it calls destroy again.
C4_DropAbsorbsInterrupt ==
    (lastOp.op = "ctx_drop" /\ lastOp.errno = posix88.EINTR) =>
        (lastOp.res = "retry" /\ ctxPc = "in_drop")

\* C5: zmq_ctx_destroy is entered only when every Socket of the Context has
\* been closed in MQ-lib.
C5_ContextOutlivesSockets == openAtDestroy = 0

\* C9: a Context that exists holds a handle that is not null.
C9_HandleNonNull == ctxPc # "none" => ctx.ctx # NULL

\* C11: the loop of the drop of the Context is left exactly when an attempt
\* of zmq_ctx_destroy succeeded or answered EFAULT, and then the drop is
\* over; after every other answer the drop enters zmq_ctx_destroy once more.
C11_DropLoopExit ==
    [][ CtxDropReturn =>
          IF lastOp'.errno \in {0, posix88.EFAULT}
          THEN ctxPc' = "dropped" /\ lastOp'.res \in {"Ok", "EFAULT"}
          ELSE ctxPc' = "in_drop" /\ destroyCalls' = destroyCalls + 1 ]_vars

\* C12: the closed flag of a Socket, once true, stays true, and on a Socket
\* whose flag is true no method other than the drop (not bind, connect, send,
\* recv, an option getter or setter, or close_final) calls MQ-lib with the
\* handle.
C12_ClosedIsFinal ==
    [][ \A s \in Socks : closed[s] =>
          /\ closed'[s]
          /\ SockCloseFinal(s) => lastOp'.calls = 0
          /\ \A op \in SockCalls : SockCall(s, op) => lastOp'.calls = 0 ]_vars

----------------------------------------------------------------------------
(* Claims about the socket options *)

\* C6: after set_identity(b) has succeeded on an open Socket, b of 1 to 255
\* bytes, get_identity() returns the bytes of b, as many as b has.
C6_IdentityRoundTrip ==
    \A i \in 2..Len(idLog) :
        ( /\ idLog[i].op = "get_identity"
          /\ idLog[i - 1].op = "set_identity"
          /\ idLog[i - 1].res = "Ok" )
        => (idLog[i].res = "Ok" /\ idLog[i].val = idLog[i - 1].val)

\* C8: for every option with a typed setter and getter and every value of its
\* range, the set succeeds on an open Socket and a get that follows it returns
\* the value set.
C8_SetThenGet ==
    \A i \in 1..Len(optLog) :
        /\ optLog[i].op = "set" => optLog[i].res = "Ok"
        /\ ( /\ i > 1
             /\ optLog[i].op = "get"
             /\ optLog[i - 1].op = "set"
             /\ optLog[i - 1].opt = optLog[i].opt )
           => (optLog[i].res = "Ok" /\ optLog[i].val = optLog[i - 1].val)

----------------------------------------------------------------------------
(* Claims about the Messages *)

\* C7: a message value the binding initialised is closed exactly once on
\* every path (not before its Message is dropped, once from then on; the one
\* of send once when send has returned), and one whose initialisation failed
\* is never closed.
C7_MessageClosedOnce ==
    \A m \in Msgs :
        /\ msgCloses[m] <= 1
        /\ msgInit[m] = "failed" => msgCloses[m] = 0
        /\ msgSt[m] = "held" => (msgInit[m] = "ok" /\ msgCloses[m] = 0)
        /\ (msgSt[m] \in {"dropped", "stack_gone"} /\ msgInit[m] = "ok")
               => msgCloses[m] = 1

\* a send whose zmq_msg_send answered -1 has closed its message, after a send
\* whose zmq_msg_init_size failed and a recv_msg that failed
C7_Witness ==
    /\ msgLast = MsgOp("send", 3, "EAGAIN")
    /\ msgInit[3] = "ok" /\ msgCloses[3] = 1
    /\ msgInit[1] = "failed" /\ msgCloses[1] = 0
    /\ msgSt[2] = "dropped" /\ msgCloses[2] = 1

====
